---- MODULE Spec2Model ----
(***************************************************************************)
(* A model of the results publisher of src/app.py: the merge/accumulation  *)
(* engine (merge_into_state), the publish workflow (publish_final with the *)
(* blob-store helpers) and the team-report parser (parse_team_report).     *)
(*                                                                         *)
(* Strings of the source are abbreviated to ASCII tags:                    *)
(*   categories  "MS" = men's singles, "WS" = women's singles              *)
(*   stages      "main" = main draw, "qual" = qualifying                   *)
(***************************************************************************)
EXTENDS Integers, Sequences, FiniteSets, TLC

VARIABLES
    \* ---- merge engine (SpecMerge) ----
    mstate,     \* state["sections"] of the cumulative state being merged into
    mprev,      \* state["sections"] before the last merge_into_state call
    mbatch,     \* daily_sections of the last merge_into_state call
    mcount,     \* number of merge_into_state calls made so far
    \* ---- team-report parser (SpecTeam) ----
    tin,        \* parse_team_report: the lines of the input text
    ti,         \* index of the next line the loop takes
    tcur,       \* current: "none", "mens" or "womens"
    tout,       \* out: [mens, womens], each [title, lines]
    tpc,        \* "loop" inside the for loop, "done" after the return
    tfinals,    \* per bucket, the positions at which append_team_final_line
                \* appended a verdict record: [at |-> lines consumed, pos |-> index]
    \* ---- publish workflow (SpecPublish); p ranges over the requests ----
    store,      \* the blob store: file -> [rev, content]; rev 0 = no such file
    pc,         \* pc[p]: where request p stands
    sub,        \* sub[p]: the form /preview accepted the password of
    ctx,        \* ctx[p]: the ctx /preview hands to /publish_final
    mem,        \* mem[p]: the in-memory `state` of publish_final
    sha,        \* sha[p]: the sha github_put_file read for its PUT
    html,       \* html[p]: the records the report of p is rendered from
    log,        \* log[p]: the steps p has completed, in order
    failedAt,   \* failedAt[p]: the step whose exception ended p, or "none"
    readRev,    \* readRev[p]: revision of the state file p loaded
    readDoc,    \* readDoc[p]: the state p loaded (before its own changes)
    wroteRev,   \* wroteRev[p]: revision p's write of the state file made, or 0
    seenDone,   \* seenDone[p]: the requests that had returned when p loaded
    \* ---- normalize_zenkaku (SpecNorm) ----
    nin,        \* the string given to normalize_zenkaku
    nout,       \* the string it returned
    npc,        \* "call" before the call, "done" after the return
    \* ---- did_home_team_win (SpecScore) ----
    sin,        \* the score string given to did_home_team_win
    sout,       \* [home, away, win]: home_sets, away_sets and the value returned
    spc,        \* "call" before the call, "done" after the return
    \* ---- parse_daily_results (SpecDaily) ----
    din,        \* the lines of the text given to parse_daily_results
    dout,       \* the sections it returned
    dpc,        \* "call" before the call, "done" after the return
    \* ---- parse_tomorrow_text (SpecTomorrow) ----
    win,        \* the lines of the text given to parse_tomorrow_text
    wout,       \* the Schedule Entries it returned
    wpc,        \* "call" before the call, "done" after the return
    \* ---- the loops of parse_daily_results, step by step (SpecDailyLoop) ----
    plines,     \* lines: the non-blank lines of the text
    pidx,       \* i, counted from 1
    psections,  \* sections
    psection,   \* section: the Category entry being filled
    pstage,     \* stage of the last header
    pround,     \* round_ of the last header
    ppc         \* "outer" / "inner": at the head of that while loop; "done"

mergeVars == <<mstate, mprev, mbatch, mcount>>

teamVars == <<tin, ti, tcur, tout, tpc, tfinals>>

pubVars == <<store, pc, sub, ctx, mem, sha, html, log, failedAt,
             readRev, readDoc, wroteRev, seenDone>>

normVars == <<nin, nout, npc>>

scoreVars == <<sin, sout, spc>>

dailyVars == <<din, dout, dpc>>

tomorrowVars == <<win, wout, wpc>>

\* The variables of the pure functions that are checked one call at a time.
loopVars == <<plines, pidx, psections, psection, pstage, pround, ppc>>

callVars == <<normVars, scoreVars, dailyVars, tomorrowVars, loopVars>>

vars == <<mergeVars, teamVars, pubVars, callVars>>

\* ------------------------------------------------------------------------
\* Bounds of the model
\* ------------------------------------------------------------------------
MaxMerges == 3      \* merge_into_state calls in one behaviour
MaxTeamLines == 4   \* lines of a text given to parse_team_report
MaxPublishes == 2   \* preview / publish requests in one behaviour
MaxDailyLines == 5  \* lines of a text given to parse_daily_results
MaxSets == 3        \* sets of a score given to did_home_team_win
MaxNormLen == 3     \* characters of a string given to normalize_zenkaku
MaxTomorrowLines == 7   \* lines of a text given to parse_tomorrow_text
MaxLoopLines == 4   \* lines of a text whose parse is followed step by step

\* ------------------------------------------------------------------------
\* No call of a pure function is under way.
\* ------------------------------------------------------------------------
NormIdle == nin = <<>> /\ nout = <<>> /\ npc = "done"

ScoreIdle == sin = <<>> /\ sout = [home |-> 0, away |-> 0, win |-> FALSE] /\ spc = "done"

DailyIdle == din = <<>> /\ dout = <<>> /\ dpc = "done"

TomorrowIdle == win = <<>> /\ wout = <<>> /\ wpc = "done"

LoopIdle ==
    /\ plines = <<>>
    /\ pidx = 1
    /\ psections = <<>>
    /\ psection = [category |-> "", players |-> <<>>]
    /\ pstage = ""
    /\ pround = ""
    /\ ppc = "done"

CallIdle == NormIdle /\ ScoreIdle /\ DailyIdle /\ TomorrowIdle /\ LoopIdle

\* ------------------------------------------------------------------------
\* Generic helpers
\* ------------------------------------------------------------------------
Range(s) == {s[i] : i \in 1..Len(s)}

NoDup(s) == \A i, j \in 1..Len(s) : i # j => s[i] # s[j]

IsPrefix(s, t) == Len(s) <= Len(t) /\ \A i \in 1..Len(s) : s[i] = t[i]

SetMax(S) == CHOOSE x \in S : \A y \in S : y <= x

SetMin(S) == CHOOSE x \in S : \A y \in S : x <= y

\* ------------------------------------------------------------------------
\* Batches: the daily_sections values handed to merge_into_state.
\*   section = [category, players], player = [name, blocks],
\*   block = [stage, lines].
\* A batch is built from one or two paths (category, name, stage, line); a
\* path is attached to the batch built so far as a new section (depth 1), a
\* new player of the last section (2), a new block of the last player (3) or
\* a new line of the last block (4), so that a batch can name a category, a
\* player, a stage or a line twice.  One path cut short gives the batches
\* with an empty players, blocks or lines list.  Longer batches are covered
\* by successive calls: merge_into_state treats the sections of a batch one
\* after the other.
\* ------------------------------------------------------------------------
\* A Round-Line f"{round_} {score} {opp}" is kept as <<round, score, opp>>.
Line1 == <<"1R", "6-3/6-2", "x">>

Line2 == <<"2R", "4-6/6(4)-7", "y">>

EntryPaths ==
    { <<"MS", "A", "main", Line1>>,
      <<"MS", "A", "main", Line2>>,
      <<"MS", "A", "qual", Line1>>,
      <<"MS", "B", "main", Line1>>,
      <<"WS", "A", "main", Line1>> }

MkBlock(p, k) == [stage |-> p[3], lines |-> IF k >= 4 THEN <<p[4]>> ELSE <<>>]

MkPlayer(p, k) == [name |-> p[2], blocks |-> IF k >= 3 THEN <<MkBlock(p, k)>> ELSE <<>>]

MkSection(p, k) == [category |-> p[1], players |-> IF k >= 2 THEN <<MkPlayer(p, k)>> ELSE <<>>]

\* Whether path p can be attached at depth d below the last nodes of batch b.
CanAttach(b, p, d) ==
    \/ d = 1
    \/ /\ d >= 2
       /\ Len(b) > 0
       /\ LET sec == b[Len(b)] IN
          /\ sec.category = p[1]
          /\ \/ d = 2
             \/ /\ Len(sec.players) > 0
                /\ LET pl == sec.players[Len(sec.players)] IN
                   /\ pl.name = p[2]
                   /\ \/ d = 3
                      \/ /\ Len(pl.blocks) > 0
                         /\ pl.blocks[Len(pl.blocks)].stage = p[3]

Attach(b, p, d) ==
    IF d = 1 THEN Append(b, MkSection(p, 4))
    ELSE LET si  == Len(b)
             sec == b[si]
         IN  IF d = 2
             THEN [b EXCEPT ![si].players = Append(sec.players, MkPlayer(p, 4))]
             ELSE LET pi == Len(sec.players)
                      pl == sec.players[pi]
                  IN  IF d = 3
                      THEN [b EXCEPT ![si].players[pi].blocks =
                                         Append(pl.blocks, MkBlock(p, 4))]
                      ELSE LET bi == Len(pl.blocks) IN
                           [b EXCEPT ![si].players[pi].blocks[bi].lines =
                                         Append(pl.blocks[bi].lines, p[4])]

RECURSIVE BatchesOfLen(_)
BatchesOfLen(n) ==
    IF n = 0 THEN {<<>>}
    ELSE {Attach(b, p, d) : <<b, p, d>> \in
            {t \in BatchesOfLen(n - 1) \X EntryPaths \X (1..4) :
                CanAttach(t[1], t[2], t[3])}}

CutBatches == {<<MkSection(p, k)>> : p \in EntryPaths, k \in 1..3}

Batches == CutBatches \cup BatchesOfLen(0) \cup BatchesOfLen(1) \cup BatchesOfLen(1 + 1)

EmptySections == <<>>

\* ------------------------------------------------------------------------
\* merge_into_state (src/app.py 601-635)
\* ------------------------------------------------------------------------

\* `if ln not in block["lines"]: block["lines"].append(ln)`
AppendLineAlways(lines, ln) == Append(lines, ln)

AppendLineReplace(lines, ln) == IF ln \in Range(lines) THEN lines ELSE <<ln>>

AppendLinePrepend(lines, ln) == IF ln \in Range(lines) THEN lines ELSE <<ln>> \o lines

AppendLine(lines, ln) == IF ln \in Range(lines) THEN lines ELSE Append(lines, ln)

\* `for ln in db["lines"]: ...`
RECURSIVE MergeLines(_, _)
MergeLines(lines, new) ==
    IF new = <<>> THEN lines
    ELSE MergeLines(AppendLine(lines, Head(new)), Tail(new))

\* `next((b for b in player["blocks"] if b["stage"] == stage), None)`:
\* the index of the first block with that stage, 0 for None.
FindBlockNever(blocks, stage) == 0

FindBlock(blocks, stage) ==
    LET hits == {i \in 1..Len(blocks) : blocks[i].stage = stage}
    IN  IF hits = {} THEN 0 ELSE SetMin(hits)

\* `for db in dp["blocks"]: ...`
RECURSIVE MergeBlocks(_, _)
MergeBlocks(blocks, dbs) ==
    IF dbs = <<>> THEN blocks
    ELSE LET db    == Head(dbs)
             found == FindBlock(blocks, db.stage)
             withB == IF found = 0
                      THEN Append(blocks, [stage |-> db.stage, lines |-> <<>>])
                      ELSE blocks
             bi    == IF found = 0 THEN Len(withB) ELSE found
         IN  MergeBlocks(
                 [withB EXCEPT ![bi].lines = MergeLines(withB[bi].lines, db.lines)],
                 Tail(dbs))

\* `player_map = {p["name"]: p for p in sec["players"]}` then
\* `player_map[name]`: a dict comprehension keeps the last entry of a key;
\* 0 when the name is not a key.
PlayerIndexNever(players, name) == 0

PlayerIndex(players, name) ==
    LET hits == {i \in 1..Len(players) : players[i].name = name}
    IN  IF hits = {} THEN 0 ELSE SetMax(hits)

\* `for dp in ds["players"]: ...`
RECURSIVE MergePlayers(_, _)
MergePlayers(players, dps) ==
    IF dps = <<>> THEN players
    ELSE LET dp    == Head(dps)
             found == PlayerIndex(players, dp.name)
             withP == IF found = 0
                      THEN Append(players, [name |-> dp.name, blocks |-> <<>>])
                      ELSE players
             pi    == IF found = 0 THEN Len(withP) ELSE found
         IN  MergePlayers(
                 [withP EXCEPT ![pi].blocks = MergeBlocks(withP[pi].blocks, dp.blocks)],
                 Tail(dps))

\* `sec_map = {s["category"]: s for s in state.get("sections", [])}` then
\* `sec_map[cat]`; 0 when the category is not a key.
SectionIndexNever(sections, cat) == 0

SectionIndex(sections, cat) ==
    LET hits == {i \in 1..Len(sections) : sections[i].category = cat}
    IN  IF hits = {} THEN 0 ELSE SetMax(hits)

\* `for ds in daily_sections: ...`; the value is state["sections"] afterwards.
RECURSIVE merge_into_state(_, _)
merge_into_state(sections, daily_sections) ==
    IF daily_sections = <<>> THEN sections
    ELSE LET ds    == Head(daily_sections)
             found == SectionIndex(sections, ds.category)
             withS == IF found = 0
                      THEN Append(sections, [category |-> ds.category, players |-> <<>>])
                      ELSE sections
             si    == IF found = 0 THEN Len(withS) ELSE found
         IN  merge_into_state(
                 [withS EXCEPT ![si].players = MergePlayers(withS[si].players, ds.players)],
                 Tail(daily_sections))

\* ------------------------------------------------------------------------
\* SpecMerge: repeated merge_into_state calls from the empty state
\* ------------------------------------------------------------------------
MergeIdle ==
    /\ mstate = EmptySections
    /\ mprev = EmptySections
    /\ mbatch = <<>>
    /\ mcount = 0

MergeCall(B) ==
    /\ mcount < MaxMerges
    /\ mstate' = merge_into_state(mstate, B)
    /\ mprev' = mstate
    /\ mbatch' = B
    /\ mcount' = mcount + 1
    /\ UNCHANGED <<teamVars, pubVars, callVars>>

MergeNext == \E B \in Batches : MergeCall(B)

\* ------------------------------------------------------------------------
\* Text: a string is a sequence of characters.  Characters that the code
\* treats specially have their own tag: "F0".."F9" full-width digits, "F/"
\* full-width solidus, "FSP" full-width space, "F(" "F)" full-width
\* parentheses, "F-" full-width hyphen-minus, "MINUS" U+2212, "HBAR" U+2015,
\* "EN" U+2013, "EM" U+2014, "HY" U+2010, "LV" the long-vowel mark U+30FC.
\* ------------------------------------------------------------------------
AsciiDigits == {"0", "1", "2", "3", "4", "5", "6", "7", "8", "9"}

FullDigits == {"F0", "F1", "F2", "F3", "F4", "F5", "F6", "F7", "F8", "F9"}

DigitValue(c) ==
    CASE c \in {"0", "F0"} -> 0 [] c \in {"1", "F1"} -> 1 [] c \in {"2", "F2"} -> 2
      [] c \in {"3", "F3"} -> 3 [] c \in {"4", "F4"} -> 4 [] c \in {"5", "F5"} -> 5
      [] c \in {"6", "F6"} -> 6 [] c \in {"7", "F7"} -> 7 [] c \in {"8", "F8"} -> 8
      [] c \in {"9", "F9"} -> 9

AsciiDigitOf(n) ==
    CASE n = 0 -> "0" [] n = 1 -> "1" [] n = 2 -> "2" [] n = 3 -> "3" [] n = 4 -> "4"
      [] n = 5 -> "5" [] n = 6 -> "6" [] n = 7 -> "7" [] n = 8 -> "8" [] n = 9 -> "9"

\* The characters the loop of normalize_zenkaku replaces by "-".
MinusVariants == {"F-", "MINUS", "HBAR", "EN", "EM", "HY", "-"}

\* normalize_zenkaku on one character (src/app.py 82-91): the long-vowel
\* mark "LV" is left as it is.
NormalizeCharLongVowel(c) ==
    IF c \in FullDigits THEN AsciiDigitOf(DigitValue(c))
    ELSE IF c = "F/" THEN "/"
    ELSE IF c = "FSP" THEN " "
    ELSE IF c = "F(" THEN "("
    ELSE IF c = "F)" THEN ")"
    ELSE IF c \in MinusVariants \cup {"LV"} THEN "-"
    ELSE c

NormalizeCharLateLongVowel(c) ==
    IF c \in FullDigits THEN AsciiDigitOf(DigitValue(c))
    ELSE IF c = "F/" THEN "/"
    ELSE IF c = "FSP" THEN " "
    ELSE IF c = "F(" THEN "("
    ELSE IF c = "F)" THEN ")"
    ELSE IF c \in MinusVariants THEN "-"
    ELSE IF c = "LV" THEN "F-"
    ELSE c

NormalizeChar(c) ==
    IF c \in FullDigits THEN AsciiDigitOf(DigitValue(c))
    ELSE IF c = "F/" THEN "/"
    ELSE IF c = "FSP" THEN " "
    ELSE IF c = "F(" THEN "("
    ELSE IF c = "F)" THEN ")"
    ELSE IF c \in MinusVariants THEN "-"
    ELSE c

\* normalize_zenkaku (src/app.py 77-93): translate and replace act on every
\* character independently; the empty string is returned as it is.
normalize_zenkaku(s) == [i \in 1..Len(s) |-> NormalizeChar(s[i])]

\* `score.replace("-", "－").replace("/", "／")` (src/app.py 241)
ScoreDisplay(score) ==
    [i \in 1..Len(score) |->
        IF score[i] = "-" THEN "F-" ELSE IF score[i] = "/" THEN "F/" ELSE score[i]]

\* str.split(sep) for a one-character separator: the pieces, in order.
RECURSIVE SplitAcc(_, _, _, _)
SplitAcc(s, sep, cur, acc) ==
    IF s = <<>> THEN Append(acc, cur)
    ELSE IF Head(s) = sep THEN SplitAcc(Tail(s), sep, <<>>, Append(acc, cur))
    ELSE SplitAcc(Tail(s), sep, Append(cur, Head(s)), acc)

Split(s, sep) == SplitAcc(s, sep, <<>>, <<>>)

\* re.findall(r"\d+", s) followed by int(): the maximal digit runs of s as
\* numbers, in order.  run = -1 while no run is open.
RECURSIVE DigitRunsAcc(_, _, _)
DigitRunsAcc(s, run, acc) ==
    IF s = <<>> THEN (IF run >= 0 THEN Append(acc, run) ELSE acc)
    ELSE IF Head(s) \in AsciiDigits \cup FullDigits
         THEN DigitRunsAcc(Tail(s),
                           (IF run >= 0 THEN 10 * run ELSE 0) + DigitValue(Head(s)), acc)
         ELSE DigitRunsAcc(Tail(s), -1, IF run >= 0 THEN Append(acc, run) ELSE acc)

DigitRuns(s) == DigitRunsAcc(s, -1, <<>>)

\* ------------------------------------------------------------------------
\* did_home_team_win (src/app.py 123-149)
\* ------------------------------------------------------------------------
\* The loop over the sets: [home, away] set counts.
RECURSIVE CountSets(_, _, _)
CountSets(sets, home, away) ==
    IF sets = <<>> THEN [home |-> home, away |-> away]
    ELSE LET nums == DigitRuns(Head(sets)) IN
         IF Len(nums) < 2 THEN CountSets(Tail(sets), home, away)
         ELSE IF nums[1] > nums[2] THEN CountSets(Tail(sets), home + 1, away)
         ELSE CountSets(Tail(sets), home, away + 1)

SetCounts(score) == CountSets(Split(normalize_zenkaku(score), "/"), 0, 0)

did_home_team_win_TieIsHome(score) == SetCounts(score).home >= SetCounts(score).away

did_home_team_win(score) == SetCounts(score).home > SetCounts(score).away

\* compute_team_score (src/app.py 151-172): [home, away] match counts.
RECURSIVE compute_team_score_from(_, _, _)
compute_team_score_from(lines, home, away) ==
    IF lines = <<>> THEN [home |-> home, away |-> away]
    ELSE LET row == Head(lines) IN
         IF row.kind # "match" \/ row.score = <<>>
         THEN compute_team_score_from(Tail(lines), home, away)
         ELSE IF did_home_team_win(row.score)
         THEN compute_team_score_from(Tail(lines), home + 1, away)
         ELSE compute_team_score_from(Tail(lines), home, away + 1)

compute_team_score(lines) == compute_team_score_from(lines, 0, 0)

\* build_final_line (src/app.py 174-180): the sentence template and the two
\* numbers it prints.
build_final_line(home, away) ==
    IF home > away THEN [tmpl |-> "home_win", a |-> home, b |-> away]
    ELSE IF home < away THEN [tmpl |-> "away_win", a |-> away, b |-> home]
    ELSE [tmpl |-> "draw", a |-> home, b |-> away]

\* A Line-Record of a bucket.
NoteRecord(text) ==
    [kind |-> "note", text |-> text, slot |-> "", team |-> "", score |-> <<>>, opp |-> ""]

MatchRecord(slot, team, score, opp) ==
    [kind |-> "match", text |-> [tmpl |-> "", a |-> 0, b |-> 0],
     slot |-> slot, team |-> team, score |-> score, opp |-> opp]

\* append_team_final_line (src/app.py 182-192): the lines of the block
\* afterwards.
append_team_final_line(lines) ==
    IF lines = <<>> THEN lines
    ELSE LET score == compute_team_score(lines)
         IN  Append(lines, NoteRecord(build_final_line(score.home, score.away)))

\* ------------------------------------------------------------------------
\* parse_team_report (src/app.py 195-259), one action per loop iteration.
\* An input line is given by what the regular expressions make of it after
\* normalize_zenkaku and strip:
\*   "blank"   empty after strip
\*   "header"  TEAM_HEADER_RE matches: gender "M" / "W", title
\*   "match"   TEAM_LINE_RE matches: slot, team, score, opp
\*   "note"    anything else
\* ------------------------------------------------------------------------
RawText(t) == [tmpl |-> "raw", a |-> t, b |-> 0]

TeamLine(kind, gender, title, score, text) ==
    [kind |-> kind, gender |-> gender, title |-> title, slot |-> "",
     team |-> "", score |-> score, opp |-> "", text |-> text]

BlankLine == TeamLine("blank", "", "", <<>>, RawText(0))

ScoreHome == <<"6", "-", "3", "/", "6", "-", "2">>

ScoreTiebreak == <<"4", "-", "6", "/", "6", "(", "4", ")", "-", "7">>

TeamLineKinds ==
    { BlankLine,
      TeamLine("header", "M", "t", <<>>, RawText(0)),
      TeamLine("header", "W", "t", <<>>, RawText(0)),
      [TeamLine("match", "", "", ScoreHome, RawText(0))
          EXCEPT !.slot = "D1", !.team = "k", !.opp = "o"],
      [TeamLine("match", "", "", ScoreTiebreak, RawText(0))
          EXCEPT !.slot = "S1", !.team = "k", !.opp = "o"],
      TeamLine("note", "", "", <<>>, RawText(1)) }

TeamTexts == UNION {[1..n -> TeamLineKinds] : n \in 0..MaxTeamLines}

EmptyTeam ==
    [mens |-> [title |-> "", lines |-> <<>>], womens |-> [title |-> "", lines |-> <<>>]]

NoFinals == [mens |-> <<>>, womens |-> <<>>]

BucketOf(gender) == IF gender = "M" THEN "mens" ELSE "womens"

\* The close of a bucket (`append_team_final_line(out[current])`): out and
\* the record of the appends afterwards.
CloseBucket(out, cur) ==
    [out EXCEPT ![cur].lines = append_team_final_line(out[cur].lines)]

CloseRecord(out, cur, finals, at) ==
    IF Len(CloseBucket(out, cur)[cur].lines) > Len(out[cur].lines)
    THEN [finals EXCEPT ![cur] =
              Append(@, [at |-> at, pos |-> Len(out[cur].lines) + 1])]
    ELSE finals

\* ------------------------------------------------------------------------
\* The publish workflow: data
\* ------------------------------------------------------------------------
Publishers == 1..MaxPublishes

\* dt.date.today().isoformat(): every request of a behaviour runs on one day.
Today == "d1"

\* What load_state_at_path returns when there is no usable file
\* (src/app.py 555); a key the dict lacks is given as "" or <<>>.
DefaultState ==
    [title |-> "default", last_updated |-> "", tournament_tag |-> "",
     sections |-> <<>>, team_days |-> <<>>]

NoHtml == [type |-> "none", left |-> <<>>, right |-> <<>>, team_days |-> <<>>]

NoCtx == [report_type |-> "none", tag |-> "", title |-> "", sections |-> <<>>,
          team |-> [mens |-> [title |-> "", lines |-> <<>>],
                    womens |-> [title |-> "", lines |-> <<>>]]]

NoSub == [report_type |-> "none", tag |-> "", raw |-> <<>>]

EmptyStore ==
    [state   |-> [rev |-> 0, content |-> DefaultState],
     latest  |-> [rev |-> 0, content |-> NoHtml],
     archive |-> [rev |-> 0, content |-> NoHtml]]

PubIdle ==
    /\ store = EmptyStore
    /\ pc = [p \in Publishers |-> "idle"]
    /\ sub = [p \in Publishers |-> NoSub]
    /\ ctx = [p \in Publishers |-> NoCtx]
    /\ mem = [p \in Publishers |-> DefaultState]
    /\ sha = [p \in Publishers |-> 0]
    /\ html = [p \in Publishers |-> NoHtml]
    /\ log = [p \in Publishers |-> <<>>]
    /\ failedAt = [p \in Publishers |-> "none"]
    /\ readRev = [p \in Publishers |-> 0]
    /\ readDoc = [p \in Publishers |-> DefaultState]
    /\ wroteRev = [p \in Publishers |-> 0]
    /\ seenDone = [p \in Publishers |-> {}]

TeamIdle ==
    /\ tin = <<>>
    /\ ti = 1
    /\ tcur = "none"
    /\ tout = EmptyTeam
    /\ tpc = "done"
    /\ tfinals = NoFinals

\* The body of `for ln in lines` (src/app.py 209-253) on one line: the new
\* [cur, out].
TeamLoopBody(cur, out, ln) ==
    IF ln.kind = "blank" THEN [cur |-> cur, out |-> out]
    ELSE IF ln.kind = "header"
    THEN LET closed == IF cur # "none" THEN CloseBucket(out, cur) ELSE out
             new    == BucketOf(ln.gender)
         IN  [cur |-> new, out |-> [closed EXCEPT ![new].title = ln.title]]
    ELSE IF cur = "none" THEN [cur |-> cur, out |-> out]
    ELSE IF ln.kind = "note"
    THEN [cur |-> cur, out |-> [out EXCEPT ![cur].lines = Append(@, NoteRecord(ln.text))]]
    ELSE [cur |-> cur,
          out |-> [out EXCEPT ![cur].lines =
                      Append(@, MatchRecord(ln.slot, ln.team,
                                            ScoreDisplay(normalize_zenkaku(ln.score)),
                                            ln.opp))]]

\* The close after the loop (src/app.py 255-259): the value returned.
TeamAfterLoop(cur, out) == IF cur # "none" THEN CloseBucket(out, cur) ELSE out

\* parse_team_report as a whole: the loop over all lines, then the close.
RECURSIVE TeamLoopFrom(_, _, _)
TeamLoopFrom(lines, cur, out) ==
    IF lines = <<>> THEN TeamAfterLoop(cur, out)
    ELSE LET r == TeamLoopBody(cur, out, Head(lines))
         IN  TeamLoopFrom(Tail(lines), r.cur, r.out)

parse_team_report(text) == TeamLoopFrom(text, "none", EmptyTeam)

\* One iteration of `for ln in lines`.
TeamLoopStep ==
    /\ tpc = "loop"
    /\ ti <= Len(tin)
    /\ LET ln == tin[ti]
           r  == TeamLoopBody(tcur, tout, ln)
       IN  /\ tcur' = r.cur
           /\ tout' = r.out
           /\ tfinals' = IF ln.kind = "header" /\ tcur # "none"
                         THEN CloseRecord(tout, tcur, tfinals, ti - 1)
                         ELSE tfinals
    /\ ti' = ti + 1
    /\ UNCHANGED <<tin, tpc>>
    /\ UNCHANGED <<mergeVars, pubVars, callVars>>

\* After the loop: close the last block and return.
TeamReturn ==
    /\ tpc = "loop"
    /\ ti > Len(tin)
    /\ tout' = TeamAfterLoop(tcur, tout)
    /\ tfinals' = IF tcur # "none" THEN CloseRecord(tout, tcur, tfinals, Len(tin))
                  ELSE tfinals
    /\ tpc' = "done"
    /\ UNCHANGED <<tin, ti, tcur>>
    /\ UNCHANGED <<mergeVars, pubVars, callVars>>

TeamNext == TeamLoopStep \/ TeamReturn

TeamInit ==
    /\ tin \in TeamTexts
    /\ ti = 1
    /\ tcur = "none"
    /\ tout = EmptyTeam
    /\ tpc = "loop"
    /\ tfinals = NoFinals
    /\ MergeIdle
    /\ PubIdle
    /\ CallIdle

SpecTeam == TeamInit /\ [][TeamNext]_vars

MergeInit == MergeIdle /\ TeamIdle /\ PubIdle /\ CallIdle

SpecMerge == MergeInit /\ [][MergeNext]_vars

\* ------------------------------------------------------------------------
\* parse_daily_results (src/app.py 304-356).  A line of the text is given by
\* what the regular expressions make of it after strip and
\* normalize_zenkaku:
\*   "blank"   empty after strip (dropped by the comprehension)
\*   "header"  HEADER_RE matches: category, stage, round
\*   "score"   parse_score_line returns (score, opp)
\*   "text"    neither
\* text names the whole line, which is what a name is taken from.
\* ------------------------------------------------------------------------
DailyLine(kind, category, stage, round, score, opp, text) ==
    [kind |-> kind, category |-> category, stage |-> stage, round |-> round,
     score |-> score, opp |-> opp, text |-> text]

DHeader(category, stage, round) == DailyLine("header", category, stage, round, "", "", "h")

DScore(score, opp) == DailyLine("score", "", "", "", score, opp, "s")

DText(text) == DailyLine("text", "", "", "", "", "", text)

IsHeader(ln) == ln.kind = "header"

\* parse_score_line(score_line) is not None
ParsesAsScore(ln) == ln.kind = "score"

\* The inner while loop (src/app.py 333-351): [players, i] when it ends.
RECURSIVE DailyPairsSkipTwo(_, _, _, _, _)
DailyPairsSkipTwo(lines, i, stage, round, players) ==
    IF i + 1 <= Len(lines) /\ ~IsHeader(lines[i])
    THEN IF ParsesAsScore(lines[i + 1])
         THEN DailyPairsSkipTwo(lines, i + 2, stage, round,
                  Append(players,
                      [name   |-> lines[i].text,
                       blocks |-> << [stage |-> stage,
                                      lines |-> << <<round, lines[i + 1].score,
                                                     lines[i + 1].opp>> >>] >>]))
         ELSE DailyPairsSkipTwo(lines, i + 2, stage, round, players)
    ELSE [players |-> players, i |-> i]

RECURSIVE DailyPairs(_, _, _, _, _)
DailyPairs(lines, i, stage, round, players) ==
    IF i + 1 <= Len(lines) /\ ~IsHeader(lines[i])
    THEN IF ParsesAsScore(lines[i + 1])
         THEN DailyPairs(lines, i + 2, stage, round,
                  Append(players,
                      [name   |-> lines[i].text,
                       blocks |-> << [stage |-> stage,
                                      lines |-> << <<round, lines[i + 1].score,
                                                     lines[i + 1].opp>> >>] >>]))
         ELSE DailyPairs(lines, i + 1, stage, round, players)
    ELSE [players |-> players, i |-> i]

\* The outer while loop (src/app.py 314-354).
RECURSIVE DailySections(_, _, _)
DailySections(lines, i, sections) ==
    IF i > Len(lines) THEN sections
    ELSE IF ~IsHeader(lines[i]) THEN DailySections(lines, i + 1, sections)
    ELSE LET r == DailyPairs(lines, i + 1, lines[i].stage, lines[i].round, <<>>)
         IN  DailySections(lines, r.i,
                 Append(sections, [category |-> lines[i].category, players |-> r.players]))

parse_daily_results(text) ==
    DailySections(SelectSeq(text, LAMBDA ln : ln.kind # "blank"), 1, <<>>)

\* ------------------------------------------------------------------------
\* The publish workflow: /preview and /publish_final
\* ------------------------------------------------------------------------
\* The forms submitted in the model.
NoHeaderText == << DText("A") >>

HeaderOnlyText == << DHeader("MS", "main", "1R") >>

ResultText1 == << DHeader("MS", "main", "1R"), DText("A"), DScore("6-3/6-2", "x") >>

ResultText2 == << DHeader("MS", "main", "2R"), DText("A"), DScore("4-6/6(4)-7", "y") >>

TeamResultText ==
    << TeamLine("header", "M", "t", <<>>, RawText(0)),
       [TeamLine("match", "", "", ScoreHome, RawText(0))
           EXCEPT !.slot = "D1", !.team = "k", !.opp = "o"] >>

\* One tournament tag, and one form that leaves the tournament name empty.
Submissions ==
    [report_type : {"individual"}, tag : {"T"},
     raw : {NoHeaderText, HeaderOnlyText, ResultText1, ResultText2}]
    \cup [report_type : {"team"}, tag : {"T"}, raw : {<<>>, TeamResultText}]
    \cup [report_type : {"individual"}, tag : {""}, raw : {ResultText1}]

\* The order of the steps of publish_final (src/app.py 867-958); each step
\* is one call to the blob store or the mail service.
NextPcNotifyFirst(step) ==
    CASE step = "load"        -> "mail1"
      [] step = "mail1"       -> "mail2"
      [] step = "mail2"       -> "sha_state"
      [] step = "sha_state"   -> "put_state"
      [] step = "put_state"   -> "sha_latest"
      [] step = "sha_latest"  -> "put_latest"
      [] step = "put_latest"  -> "sha_archive"
      [] step = "sha_archive" -> "put_archive"
      [] step = "put_archive" -> "done"

NextPc(step) ==
    CASE step = "load"        -> "sha_state"
      [] step = "sha_state"   -> "put_state"
      [] step = "put_state"   -> "sha_latest"
      [] step = "sha_latest"  -> "put_latest"
      [] step = "put_latest"  -> "sha_archive"
      [] step = "sha_archive" -> "put_archive"
      [] step = "put_archive" -> "mail1"
      [] step = "mail1"       -> "mail2"
      [] step = "mail2"       -> "done"

\* Where a request stands after a step raised: no handler catches the
\* RuntimeError, so the request ends.
OnFailureContinue(step) == NextPc(step)

OnFailure(step) == "failed"

FileOf(step) ==
    CASE step \in {"sha_state", "put_state"}     -> "state"
      [] step \in {"sha_latest", "put_latest"}   -> "latest"
      [] step \in {"sha_archive", "put_archive"} -> "archive"

\* load_state_at_path (src/app.py 552-565) on the stored file: every stored
\* state file was written by save_state_at_path, so it parses as a dict.
load_state_at_path_Default(file) == DefaultState

load_state_at_path(file) == IF file.rev = 0 THEN DefaultState ELSE file.content

\* The team_days list after the two appends of publish_final
\* (src/app.py 873-885).  An entry is given with its keys.
TeamDayAs(keys, team) ==
    [keys |-> keys, date |-> Today,
     team   |-> IF "team" \in keys THEN team ELSE NoCtx.team,
     mens   |-> IF "mens" \in keys THEN team.mens ELSE NoCtx.team.mens,
     womens |-> IF "womens" \in keys THEN team.womens ELSE NoCtx.team.womens]

TeamDaysAfter(team_days, team) ==
    Append(Append(team_days, TeamDayAs({"date", "team"}, team)),
           TeamDayAs({"date", "mens", "womens"}, team))

\* `state` of publish_final when it calls save_state_at_path
\* (src/app.py 868-887).
UpdatedState(doc, c) ==
    LET meta == [doc EXCEPT !.title = c.title, !.last_updated = Today,
                            !.tournament_tag = c.tag]
    IN  IF c.report_type = "team"
        THEN [meta EXCEPT !.team_days = TeamDaysAfter(doc.team_days, c.team)]
        ELSE [meta EXCEPT !.sections = merge_into_state(doc.sections, c.sections)]

\* split_sections_by_gender (src/app.py 429-438)
is_mens_category(cat) == cat \in {"MS", "MD"}

is_womens_category(cat) == cat \in {"WS", "WD"}

\* The records publish_final renders the report from (src/app.py 893-904);
\* header_html is a function of the ctx and is left out.
Rendered(doc, c) ==
    IF c.report_type = "team"
    THEN [type |-> "team", left |-> <<>>, right |-> <<>>, team_days |-> doc.team_days]
    ELSE [type |-> "individual",
          left  |-> SelectSeq(doc.sections, LAMBDA x : is_mens_category(x.category)),
          right |-> SelectSeq(doc.sections, LAMBDA x : is_womens_category(x.category)),
          team_days |-> <<>>]

\* What a successful PUT of the state file leaves in the store: the document
\* save_state_at_path serialises, whatever the store held (src/app.py 567-574).
SavedDocumentMerged(state, stored) ==
    [state EXCEPT !.sections = merge_into_state(stored.sections, state.sections)]

SavedDocument(state, stored) == state

\* The store accepts a PUT when the sha sent names the file's revision
\* (none sent when the GET found no file); otherwise it answers 409 / 422.
PutAccepted(sent, file) == sent = file.rev

Fail(p, step) ==
    /\ pc' = [pc EXCEPT ![p] = OnFailure(step)]
    /\ failedAt' = [failedAt EXCEPT ![p] = step]

\* /preview (src/app.py 756-848)
Preview(p, s, authorized) ==
    /\ pc[p] = "idle"
    /\ sub' = [sub EXCEPT ![p] = IF authorized THEN s ELSE @]
    /\ IF ~authorized
       THEN /\ pc' = [pc EXCEPT ![p] = "unauthorized"]
            /\ UNCHANGED ctx
       ELSE IF s.report_type = "team"
       THEN /\ ctx' = [ctx EXCEPT ![p] =
                          [NoCtx EXCEPT !.report_type = "team", !.tag = s.tag,
                                        !.title = "title",
                                        !.team = parse_team_report(s.raw)]]
            /\ pc' = [pc EXCEPT ![p] = "previewed"]
       ELSE LET events == parse_daily_results(s.raw) IN
            IF events = <<>>
            THEN /\ pc' = [pc EXCEPT ![p] = "rejected"]
                 /\ UNCHANGED ctx
            ELSE /\ ctx' = [ctx EXCEPT ![p] =
                               [NoCtx EXCEPT !.report_type = "individual",
                                             !.tag = s.tag, !.title = "title",
                                             !.sections = events]]
                 /\ pc' = [pc EXCEPT ![p] = "previewed"]
    /\ UNCHANGED <<store, mem, sha, html, log, failedAt, readRev, readDoc,
                   wroteRev, seenDone>>
    /\ UNCHANGED <<mergeVars, teamVars, callVars>>

\* /publish_final up to save_state_at_path (src/app.py 860-887):
\* sanitize_tag raises on an empty tag; the GET of the state file; the
\* changes to the loaded state.
PublishLoad(p, ok) ==
    /\ pc[p] = "previewed"
    /\ IF ctx[p].tag = ""
       THEN /\ pc' = [pc EXCEPT ![p] = "failed"]
            /\ failedAt' = [failedAt EXCEPT ![p] = "tag"]
            /\ UNCHANGED <<mem, log, readRev, readDoc, seenDone>>
       ELSE IF ~ok
       THEN /\ Fail(p, "load")
            /\ UNCHANGED <<mem, log, readRev, readDoc, seenDone>>
       ELSE LET doc == load_state_at_path(store.state) IN
            /\ mem' = [mem EXCEPT ![p] = UpdatedState(doc, ctx[p])]
            /\ readRev' = [readRev EXCEPT ![p] = store.state.rev]
            /\ readDoc' = [readDoc EXCEPT ![p] = doc]
            /\ seenDone' = [seenDone EXCEPT ![p] = {q \in Publishers : pc[q] = "done"}]
            /\ log' = [log EXCEPT ![p] = <<"load", "merge">>]
            /\ pc' = [pc EXCEPT ![p] = NextPc("load")]
            /\ UNCHANGED failedAt
    /\ UNCHANGED <<store, sub, ctx, sha, html, wroteRev>>
    /\ UNCHANGED <<mergeVars, teamVars, callVars>>

\* github_put_file, the GET of the sha (src/app.py 524-530)
PutGetSha(p, ok) ==
    /\ pc[p] \in {"sha_state", "sha_latest", "sha_archive"}
    /\ IF ok
       THEN /\ sha' = [sha EXCEPT ![p] = store[FileOf(pc[p])].rev]
            /\ log' = [log EXCEPT ![p] = Append(@, pc[p])]
            /\ pc' = [pc EXCEPT ![p] = NextPc(pc[p])]
            /\ UNCHANGED failedAt
       ELSE /\ Fail(p, pc[p])
            /\ UNCHANGED <<sha, log>>
    /\ UNCHANGED <<store, sub, ctx, mem, html, readRev, readDoc, wroteRev, seenDone>>
    /\ UNCHANGED <<mergeVars, teamVars, callVars>>

\* github_put_file, the PUT (src/app.py 532-542); after the PUT of the state
\* file publish_final renders the report (src/app.py 893-913).
PutWrite(p, ok) ==
    /\ pc[p] \in {"put_state", "put_latest", "put_archive"}
    /\ LET f == FileOf(pc[p]) IN
       IF ok /\ PutAccepted(sha[p], store[f])
       THEN /\ store' = [store EXCEPT ![f] =
                   [rev     |-> @.rev + 1,
                    content |-> IF f = "state"
                                THEN SavedDocument(mem[p], @.content)
                                ELSE html[p]]]
            /\ IF f = "state"
               THEN /\ wroteRev' = [wroteRev EXCEPT ![p] = store[f].rev + 1]
                    /\ html' = [html EXCEPT ![p] = Rendered(mem[p], ctx[p])]
                    /\ log' = [log EXCEPT ![p] = Append(Append(@, pc[p]), "render")]
               ELSE /\ log' = [log EXCEPT ![p] = Append(@, pc[p])]
                    /\ UNCHANGED <<wroteRev, html>>
            /\ pc' = [pc EXCEPT ![p] = NextPc(pc[p])]
            /\ UNCHANGED failedAt
       ELSE /\ Fail(p, pc[p])
            /\ UNCHANGED <<store, wroteRev, html, log>>
    /\ UNCHANGED <<sub, ctx, mem, sha, readRev, readDoc, seenDone>>
    /\ UNCHANGED <<mergeVars, teamVars, callVars>>

\* send_gmail_html, called twice (src/app.py 946-956); then the return.
SendMail(p, ok) ==
    /\ pc[p] \in {"mail1", "mail2"}
    /\ IF ok
       THEN /\ log' = [log EXCEPT ![p] = Append(@, pc[p])]
            /\ pc' = [pc EXCEPT ![p] = NextPc(pc[p])]
            /\ UNCHANGED failedAt
       ELSE /\ Fail(p, pc[p])
            /\ UNCHANGED log
    /\ UNCHANGED <<store, sub, ctx, mem, sha, html, readRev, readDoc, wroteRev, seenDone>>
    /\ UNCHANGED <<mergeVars, teamVars, callVars>>

PublishNext ==
    \E p \in Publishers :
        \/ \E s \in Submissions, authorized \in BOOLEAN : Preview(p, s, authorized)
        \/ \E ok \in BOOLEAN : PublishLoad(p, ok)
        \/ \E ok \in BOOLEAN : PutGetSha(p, ok)
        \/ \E ok \in BOOLEAN : PutWrite(p, ok)
        \/ \E ok \in BOOLEAN : SendMail(p, ok)

PublishInit == PubIdle /\ MergeIdle /\ TeamIdle /\ CallIdle

SpecPublish == PublishInit /\ [][PublishNext]_vars

\* ------------------------------------------------------------------------
\* Views of a sections value
\* ------------------------------------------------------------------------
\* The blocks of a sections value, each as [cat, name, stage, lines].
AllBlocks(sections) ==
    UNION { UNION { { [cat   |-> sections[i].category,
                       name  |-> sections[i].players[j].name,
                       stage |-> sections[i].players[j].blocks[k].stage,
                       lines |-> sections[i].players[j].blocks[k].lines] :
                      k \in 1..Len(sections[i].players[j].blocks) } :
                    j \in 1..Len(sections[i].players) } :
            i \in 1..Len(sections) }

\* The players of a sections value, each as [cat, name, stages].
AllPlayers(sections) ==
    UNION { { [cat    |-> sections[i].category,
               name   |-> sections[i].players[j].name,
               stages |-> [k \in 1..Len(sections[i].players[j].blocks) |->
                              sections[i].players[j].blocks[k].stage]] :
              j \in 1..Len(sections[i].players) } :
            i \in 1..Len(sections) }

\* Every (category, player, stage) for which the sections hold a block.
BlockKeys(sections) == { <<b.cat, b.name, b.stage>> : b \in AllBlocks(sections) }

\* The Round-Line strings held for one (category, player, stage).
LinesOf(sections, key) ==
    UNION { Range(b.lines) :
            b \in { x \in AllBlocks(sections) : <<x.cat, x.name, x.stage>> = key } }

SameLineSets(s1, s2) ==
    /\ BlockKeys(s1) = BlockKeys(s2)
    /\ \A key \in BlockKeys(s1) : LinesOf(s1, key) = LinesOf(s2, key)

\* ------------------------------------------------------------------------
\* Claims about merge_into_state, checked under SpecMerge
\* ------------------------------------------------------------------------

\* C1: merge_into_state is idempotent: with S the state before the last call
\* and B its batch, merge(merge(S, B), B) = merge(S, B), in sections,
\* players, blocks and line sequences.
C1_MergeIdempotent ==
    mcount > 0 =>
        /\ mstate = merge_into_state(mprev, mbatch)
        /\ merge_into_state(mstate, mbatch) = mstate

\* A second merge onto a non-empty state changed it, with a batch that names
\* the same category twice.
C1_Witness ==
    /\ mcount = 2
    /\ mprev # EmptySections
    /\ mstate # mprev
    /\ Len(mbatch) = 2
    /\ mbatch[1].category = mbatch[2].category

\* C2: after any sequence of merges from the empty state no Stage-Block holds
\* the same Round-Line string twice.
C2_LinesUnique == \A b \in AllBlocks(mstate) : NoDup(b.lines)

\* The last batch carried a line its block already held, and that block now
\* holds two lines.
C2_Witness ==
    /\ mcount = 2
    /\ \E b \in AllBlocks(mbatch) :
         \E ln \in Range(b.lines) :
            /\ ln \in LinesOf(mprev, <<b.cat, b.name, b.stage>>)
            /\ Cardinality(LinesOf(mstate, <<b.cat, b.name, b.stage>>)) = 2

\* C3: after any sequence of merges from the empty state every Player has at
\* most one Stage-Block per stage tag.
C3_OneBlockPerStage == \A p \in AllPlayers(mstate) : NoDup(p.stages)

\* The last batch named a stage its player already had, the block was
\* extended, and the player has two blocks.
C3_Witness ==
    /\ mcount = 2
    /\ \E b \in AllBlocks(mbatch) :
         LET key == <<b.cat, b.name, b.stage>> IN
         /\ key \in BlockKeys(mprev)
         /\ LinesOf(mprev, key) # LinesOf(mstate, key)
         /\ \E p \in AllPlayers(mstate) :
              p.cat = b.cat /\ p.name = b.name /\ Len(p.stages) = 2

\* C4: in every step that merges a batch B, with A the batch merged before
\* it and S the state A was merged into, merging A then B and merging B then
\* A give every (category, player, stage) block the same set of Round-Line
\* strings.
C4_OrderInvariantLineSets ==
    [][mcount >= 1 =>
          \A ab \in {mstate'} :
             \A ba \in {merge_into_state(merge_into_state(mprev, mbatch'), mbatch)} :
                SameLineSets(ab, ba)]_vars

\* From a non-empty S the two orders give different sections values (the
\* order of the lines differs) although the line sets agree.
C4_Witness ==
    /\ mcount >= 2
    /\ mprev # EmptySections
    /\ \E B \in Batches :
         /\ merge_into_state(mstate, B) #
                merge_into_state(merge_into_state(mprev, B), mbatch)
         /\ \E key \in BlockKeys(mstate) :
              Cardinality(LinesOf(merge_into_state(mstate, B), key)) >= 2

\* ------------------------------------------------------------------------
\* Claims about parse_team_report, checked under SpecTeam
\* ------------------------------------------------------------------------
HeaderOccurs(bucket) ==
    \E i \in 1..Len(tin) : tin[i].kind = "header" /\ BucketOf(tin[i].gender) = bucket

\* C10: when parse_team_report returns, each bucket whose header occurs in
\* the input holds exactly one auto-appended verdict record, and it was
\* appended when the bucket's section was fully consumed, so it is the last
\* record of the bucket.
C10_OneVerdictPerBucket ==
    tpc = "done" =>
        \A bucket \in {"mens", "womens"} :
            HeaderOccurs(bucket) =>
                /\ Len(tfinals[bucket]) = 1
                /\ tfinals[bucket][1].pos = Len(tout[bucket].lines)

\* ------------------------------------------------------------------------
\* Claims about the publish workflow, checked under SpecPublish
\* ------------------------------------------------------------------------
StorageSteps ==
    {"load", "sha_state", "put_state", "sha_latest", "put_latest",
     "sha_archive", "put_archive"}

\* The files request p has written.
Writes(p) == {FileOf(st) : st \in Range(log[p]) \cap {"put_state", "put_latest", "put_archive"}}

\* The notifications request p has sent.
Mails(p) == Range(log[p]) \cap {"mail1", "mail2"}

\* C5: when a request q publishes the text and tag that a request p had
\* published before q started, and neither failed, q renders the same
\* content as p: the records it renders from (sections, and team_days in
\* team mode) are as q loaded them.
C5_RepublishChangesNothing ==
    \A p, q \in Publishers :
        (p # q /\ pc[q] = "done" /\ p \in seenDone[q] /\ sub[p] = sub[q]) =>
            /\ html[q] = html[p]
            /\ mem[q].sections = readDoc[q].sections
            /\ ctx[q].report_type = "team" => mem[q].team_days = readDoc[q].team_days

\* C6: two publishes can lose an update.  Whenever q loaded the state before
\* p wrote it and q's write is the later one and the last, the stored
\* document is the one q computed from its stale read, and every round line
\* of p's batch that q neither loaded nor submitted is missing from it.
StaleOverwrite(p, q) ==
    /\ p # q
    /\ wroteRev[p] > 0
    /\ wroteRev[q] > wroteRev[p]
    /\ readRev[q] < wroteRev[p]
    /\ store.state.rev = wroteRev[q]

C6_StaleWriteLosesUpdate ==
    \A p, q \in Publishers :
        StaleOverwrite(p, q) =>
            /\ store.state.content = UpdatedState(readDoc[q], ctx[q])
            /\ \A b \in AllBlocks(ctx[p].sections) :
                 \A ln \in Range(b.lines) :
                    LET key == <<b.cat, b.name, b.stage>> IN
                    (/\ ln \notin LinesOf(readDoc[q].sections, key)
                     /\ ln \notin LinesOf(ctx[q].sections, key))
                    => ln \notin LinesOf(store.state.content.sections, key)

\* Both requests returned without a failure and a round line p wrote is
\* gone from the stored state.
C6_Witness ==
    \E p, q \in Publishers :
        /\ StaleOverwrite(p, q)
        /\ pc[p] = "done"
        /\ pc[q] = "done"
        /\ \E b \in AllBlocks(ctx[p].sections) :
             \E ln \in Range(b.lines) :
                /\ ln \in LinesOf(mem[p].sections, <<b.cat, b.name, b.stage>>)
                /\ ln \notin LinesOf(store.state.content.sections,
                                     <<b.cat, b.name, b.stage>>)

\* C7 as claimed: a request ended by a failed read or write of the blob
\* store has none of its writes persisted.
C7_NoPartialWrite ==
    \A p \in Publishers : failedAt[p] \in StorageSteps => Writes(p) = {}

\* C7 as amended: a failed read or write of the blob store ends the request
\* at that step: it has sent no notification and has written exactly the
\* files whose PUT precedes the failed step, and those writes stay in the
\* store.
WritesBefore(step) ==
    IF step \in {"load", "sha_state", "put_state"} THEN {}
    ELSE IF step \in {"sha_latest", "put_latest"} THEN {"state"}
    ELSE {"state", "latest"}

C7_AbortKeepsEarlierWrites ==
    \A p \in Publishers :
        failedAt[p] \in StorageSteps =>
            /\ pc[p] = "failed"
            /\ Writes(p) = WritesBefore(failedAt[p])
            /\ Mails(p) = {}
            /\ \A f \in Writes(p) : store[f].rev > 0

\* The PUT of the latest report failed after the state file was written:
\* the store holds the state this request computed.
C7_Witness ==
    \E p \in Publishers :
        /\ failedAt[p] = "put_latest"
        /\ Writes(p) = {"state"}
        /\ store.state.rev = wroteRev[p]
        /\ store.state.content = mem[p]
        /\ mem[p] # readDoc[p]

\* C8: the steps of a publish run in the order read, merge, write state,
\* render, write reports, notify; a notification is attempted only after the
\* state write of the same request succeeded, so a failed notification
\* leaves that write in the store.
StepOrder ==
    <<"load", "merge", "sha_state", "put_state", "render", "sha_latest",
      "put_latest", "sha_archive", "put_archive", "mail1", "mail2">>

NotifyAttempted(p) ==
    \/ pc[p] \in {"mail1", "mail2", "done"}
    \/ failedAt[p] \in {"mail1", "mail2"}
    \/ Mails(p) # {}

C8_NotifyAfterStateWrite ==
    \A p \in Publishers :
        /\ IsPrefix(log[p], StepOrder)
        /\ NotifyAttempted(p) =>
              /\ {"load", "merge", "put_state", "render"} \subseteq Range(log[p])
              /\ wroteRev[p] > 0
              /\ store.state.rev >= wroteRev[p]
              /\ store.state.rev = wroteRev[p] => store.state.content = mem[p]

\* The first notification failed and the store holds the state this request
\* merged and wrote.
C8_Witness ==
    \E p \in Publishers :
        /\ failedAt[p] = "mail1"
        /\ pc[p] = "failed"
        /\ store.state.rev = wroteRev[p]
        /\ store.state.content = mem[p]
        /\ mem[p].sections # readDoc[p].sections

\* C9: a request whose text yields zero structured records (no player in
\* individual mode, no match or note record in team mode) is rejected by
\* /preview, and it leaves the stored state as it was.
ZeroRecords(s) ==
    IF s.report_type = "team"
    THEN /\ parse_team_report(s.raw).mens.lines = <<>>
         /\ parse_team_report(s.raw).womens.lines = <<>>
    ELSE \A sec \in Range(parse_daily_results(s.raw)) : sec.players = <<>>

C9_EmptyYieldRejected ==
    \A p \in Publishers :
        (pc[p] \notin {"idle", "unauthorized"} /\ ZeroRecords(sub[p])) =>
            /\ pc[p] = "rejected"
            /\ wroteRev[p] = 0

\* ------------------------------------------------------------------------
\* SpecDaily: one call of parse_daily_results on a text of at most
\* MaxDailyLines lines.  "XD" is a header-like line whose category is not one
\* of the four of HEADER_RE: the expression does not match it and
\* parse_score_line returns None for it, so the parser sees a text line.
\* ------------------------------------------------------------------------
DBlank == DailyLine("blank", "", "", "", "", "", "")

OtherCategoryHeader == DText("XD main 1R")

DailyLineKinds ==
    { DBlank,
      DHeader("MS", "main", "1R"),
      DHeader("MS", "main", "2R"),
      DHeader("WS", "qual", "1R"),
      DText("A"),
      DText("B"),
      OtherCategoryHeader,
      DScore("6-3/6-2", "x") }

DailyTexts == UNION {[1..n -> DailyLineKinds] : n \in 0..MaxDailyLines}

DailyCall ==
    /\ dpc = "call"
    /\ dout' = parse_daily_results(din)
    /\ dpc' = "done"
    /\ UNCHANGED din
    /\ UNCHANGED <<mergeVars, teamVars, pubVars, normVars, scoreVars, tomorrowVars, loopVars>>

DailyNext == DailyCall

DailyInit ==
    /\ din \in DailyTexts
    /\ dout = <<>>
    /\ dpc = "call"
    /\ MergeIdle /\ TeamIdle /\ PubIdle
    /\ NormIdle /\ ScoreIdle /\ TomorrowIdle /\ LoopIdle

SpecDaily == DailyInit /\ [][DailyNext]_vars

\* ------------------------------------------------------------------------
\* Claims about parse_daily_results, checked under SpecDaily
\* ------------------------------------------------------------------------
\* The lines parse_daily_results keeps (`if ln.strip()`).
NonBlank(text) == SelectSeq(text, LAMBDA ln : ln.kind # "blank")

\* A run of well-formed name / score pairs.
WellFormedPairs(ls) ==
    /\ Len(ls) % 2 = 0
    /\ \A k \in 1..Len(ls) :
         IF k % 2 = 1 THEN ls[k].kind = "text" ELSE ls[k].kind = "score"

\* The Players that the pairs of ls stand for under header h.
PairsOf(h, ls) ==
    [k \in 1..(Len(ls) \div 2) |->
        [name   |-> ls[2 * k - 1].text,
         blocks |-> << [stage |-> h.stage,
                        lines |-> << <<h.round, ls[2 * k].score, ls[2 * k].opp>> >>] >>]]

LastHeader(ls) == ls[SetMax({i \in 1..Len(ls) : IsHeader(ls[i])})]

\* C11: a line that is neither a header nor a score line, standing in a
\* section body before a run of well-formed name / score pairs, is passed by
\* one line: the text up to that line gives the sections it gives alone, and
\* the pairs after it are added to the last section as one Player with one
\* Round-Line each.  For header, malformed line, name, score line exactly one
\* Player with one Round-Line is produced.
C11_ResyncAfterMalformedLine ==
    dpc = "done" =>
        LET L == NonBlank(din) IN
        \A k \in 2..Len(L) :
            LET before == SubSeq(L, 1, k - 1)
                after  == SubSeq(L, k + 1, Len(L))
                alone  == parse_daily_results(before)
            IN  (/\ L[k].kind = "text"
                 /\ \E i \in 1..(k - 1) : IsHeader(L[i])
                 /\ WellFormedPairs(after))
                => /\ Len(dout) = Len(alone)
                   /\ \A i \in 1..(Len(alone) - 1) : dout[i] = alone[i]
                   /\ dout[Len(alone)].category = alone[Len(alone)].category
                   /\ dout[Len(alone)].players =
                         alone[Len(alone)].players \o PairsOf(LastHeader(before), after)

\* header, malformed line, name, score line: one Player with one Round-Line.
C11_Witness ==
    /\ dpc = "done"
    /\ din = << DHeader("MS", "main", "1R"), OtherCategoryHeader, DText("A"),
                DScore("6-3/6-2", "x") >>
    /\ dout = << [category |-> "MS",
                  players  |-> << [name   |-> "A",
                                   blocks |-> << [stage |-> "main",
                                                  lines |-> << <<"1R", "6-3/6-2", "x">> >>] >>] >>] >>

\* ------------------------------------------------------------------------
\* SpecScore: one call of did_home_team_win on a score of at most MaxSets
\* sets joined by "/".
\* ------------------------------------------------------------------------
SetStrings ==
    { <<"6", "-", "3">>,
      <<"6", "-", "2">>,
      <<"4", "-", "6">>,
      <<"6", "(", "4", ")", "-", "7">>,
      <<"7", "-", "6", "(", "3", ")">>,
      <<"1", "0", "-", "7">>,
      <<"6", "-", "6">>,
      <<"F6", "F-", "F3">>,
      <<"6">>,
      <<>> }

RECURSIVE JoinSets(_)
JoinSets(sets) ==
    IF Len(sets) = 1 THEN sets[1]
    ELSE sets[1] \o <<"/">> \o JoinSets(Tail(sets))

ScoreTexts == {JoinSets(q) : q \in UNION {[1..n -> SetStrings] : n \in 1..MaxSets}}

ScoreCall ==
    /\ spc = "call"
    /\ sout' = [home |-> SetCounts(sin).home,
                away |-> SetCounts(sin).away,
                win  |-> did_home_team_win(sin)]
    /\ spc' = "done"
    /\ UNCHANGED sin
    /\ UNCHANGED <<mergeVars, teamVars, pubVars, normVars, dailyVars, tomorrowVars, loopVars>>

ScoreNext == ScoreCall

ScoreInit ==
    /\ sin \in ScoreTexts
    /\ sout = [home |-> 0, away |-> 0, win |-> FALSE]
    /\ spc = "call"
    /\ MergeIdle /\ TeamIdle /\ PubIdle
    /\ NormIdle /\ DailyIdle /\ TomorrowIdle /\ LoopIdle

SpecScore == ScoreInit /\ [][ScoreNext]_vars

\* ------------------------------------------------------------------------
\* Claims about did_home_team_win, checked under SpecScore
\* ------------------------------------------------------------------------
\* The sets of the score given to the call.
SetsOf(score) == Split(normalize_zenkaku(score), "/")

\* A set without its parenthesized tiebreak numbers.
RECURSIVE StripParens(_, _)
StripParens(s, inside) ==
    IF s = <<>> THEN <<>>
    ELSE IF Head(s) = "(" THEN StripParens(Tail(s), TRUE)
    ELSE IF Head(s) = ")" THEN StripParens(Tail(s), FALSE)
    ELSE IF inside THEN StripParens(Tail(s), TRUE)
    ELSE <<Head(s)>> \o StripParens(Tail(s), FALSE)

\* The home and away games of a set: its numbers outside parentheses.
GamesOf(set) == DigitRuns(StripParens(set, FALSE))

\* C12: each set is decided by its home games against its away games, the
\* parenthesized tiebreak number being ignored: home_sets counts the sets
\* with more home games, away_sets the other sets that have both numbers
\* (6(4)-7 is an away set; 4-6/6(4)-7 gives 0 and 2, 6-3/6-2 gives 2 and 0).
C12_TiebreakIgnored ==
    spc = "done" =>
        LET sets == SetsOf(sin)
            both == {k \in 1..Len(sets) : Len(GamesOf(sets[k])) >= 2}
        IN  /\ sout.home = Cardinality({k \in both : GamesOf(sets[k])[1] > GamesOf(sets[k])[2]})
            /\ sout.away = Cardinality({k \in both : GamesOf(sets[k])[1] <= GamesOf(sets[k])[2]})

NormChars ==
    {"F0", "F9", "1", "F/", "FSP", "F(", "F)", "LV", "a"} \cup MinusVariants

NormTexts == UNION {[1..n -> NormChars] : n \in 0..MaxNormLen}

NormCall ==
    /\ npc = "call"
    /\ nout' = normalize_zenkaku(nin)
    /\ npc' = "done"
    /\ UNCHANGED nin
    /\ UNCHANGED <<mergeVars, teamVars, pubVars, scoreVars, dailyVars, tomorrowVars, loopVars>>

NormNext == NormCall

NormInit ==
    /\ nin \in NormTexts
    /\ nout = <<>>
    /\ npc = "call"
    /\ MergeIdle /\ TeamIdle /\ PubIdle
    /\ ScoreIdle /\ DailyIdle /\ TomorrowIdle /\ LoopIdle

SpecNorm == NormInit /\ [][NormNext]_vars

\* ------------------------------------------------------------------------
\* Claims about normalize_zenkaku, checked under SpecNorm
\* ------------------------------------------------------------------------

\* C13: normalize_zenkaku is idempotent: normalizing the string it returned
\* gives that string again.
C13_NormalizeIdempotent == npc = "done" => normalize_zenkaku(nout) = nout

\* The call changed a string of several characters.
C13_Witness ==
    /\ npc = "done"
    /\ Len(nin) >= 2
    /\ \E i, j \in 1..Len(nin) : nin[i] \in FullDigits /\ nin[j] \in MinusVariants \ {"-"}
    /\ nout # nin

\* The characters normalize_zenkaku is to alter.
AlteredChars ==
    FullDigits \cup {"F/", "FSP", "F(", "F)"} \cup (MinusVariants \ {"-"})

\* C14: the normalize_zenkaku of the parsers leaves the long-vowel mark as it
\* is at every position, and alters no character other than the full-width
\* digits, solidus, space and parentheses and the listed dash variants.
C14_LongVowelKept ==
    npc = "done" =>
        /\ Len(nout) = Len(nin)
        /\ \A i \in 1..Len(nin) :
             /\ nin[i] = "LV" => nout[i] = "LV"
             /\ nout[i] # nin[i] => nin[i] \in AlteredChars

\* A string with a long-vowel mark next to a dash variant that was replaced.
C14_Witness ==
    /\ npc = "done"
    /\ \E i, j \in 1..Len(nin) :
         /\ nin[i] = "LV" /\ nout[i] = "LV"
         /\ nin[j] = "HBAR" /\ nout[j] = "-"

\* ------------------------------------------------------------------------
\* Further claims about the publish workflow, checked under SpecPublish
\* ------------------------------------------------------------------------

\* C15: after any sequence of team-mode publishes every element of the
\* persisted team_days list has the shape {date, mens, womens}.
C15_TeamDaysShape ==
    \A i \in 1..Len(store.state.content.team_days) :
        store.state.content.team_days[i].keys = {"date", "mens", "womens"}

\* ------------------------------------------------------------------------
\* parse_tomorrow_text (src/app.py 358-402).  A line of the text is given by
\* what strip and the two expressions make of it:
\*   "blank"  empty after strip
\*   "name"   name_re matches (name, event), vs_re does not
\*   "vs"     vs_re matches (opp, time, court); name_re matches such a line
\*            too, its name group taking the text before the parenthesis and
\*            its event group the text inside
\*   "other"  neither matches
\* ------------------------------------------------------------------------
TomorrowLine(kind, name, event, opp, time, court) ==
    [kind |-> kind, name |-> name, event |-> event, opp |-> opp,
     time |-> time, court |-> court]

WBlank == TomorrowLine("blank", "", "", "", "", "")

WName(n) == TomorrowLine("name", n, "event", "", "", "")

WVs(o) == TomorrowLine("vs", "vs " \o o, "time,court", o, "time", "court")

WOther == TomorrowLine("other", "", "", "", "", "")

\* name_re.match(line) / vs_re.match(line)
MatchesName(ln) == ln.kind \in {"name", "vs"}

MatchesVs(ln) == ln.kind = "vs"

\* `re.split(r"\n\s*\n+", t)` on the stripped text, each block with its
\* non-blank lines: the maximal runs of non-blank lines.
RECURSIVE TomorrowBlocksAcc(_, _, _)
TomorrowBlocksAcc(lines, cur, acc) ==
    IF lines = <<>> THEN (IF cur = <<>> THEN acc ELSE Append(acc, cur))
    ELSE IF Head(lines).kind = "blank"
         THEN TomorrowBlocksAcc(Tail(lines), <<>>,
                                IF cur = <<>> THEN acc ELSE Append(acc, cur))
         ELSE TomorrowBlocksAcc(Tail(lines), Append(cur, Head(lines)), acc)

TomorrowBlocks(lines) == TomorrowBlocksAcc(lines, <<>>, <<>>)

\* The dict appended for a block (src/app.py 394-400).
ScheduleEntry(l1, l2) ==
    [name |-> l1.name, event |-> l1.event, opponent |-> l2.opp,
     time |-> l2.time, court |-> l2.court]

\* `for b in blocks` (src/app.py 383-400)
RECURSIVE TomorrowLoopStopAtBadBlock(_, _)
TomorrowLoopStopAtBadBlock(blocks, out) ==
    IF blocks = <<>> THEN out
    ELSE LET lines == Head(blocks) IN
         IF Len(lines) < 2 THEN out
         ELSE IF ~(MatchesName(lines[1]) /\ MatchesVs(lines[2])) THEN out
         ELSE TomorrowLoopStopAtBadBlock(Tail(blocks),
                                         Append(out, ScheduleEntry(lines[1], lines[2])))

RECURSIVE TomorrowLoop(_, _)
TomorrowLoop(blocks, out) ==
    IF blocks = <<>> THEN out
    ELSE LET lines == Head(blocks) IN
         IF Len(lines) < 2 THEN TomorrowLoop(Tail(blocks), out)
         ELSE IF ~(MatchesName(lines[1]) /\ MatchesVs(lines[2]))
              THEN TomorrowLoop(Tail(blocks), out)
         ELSE TomorrowLoop(Tail(blocks), Append(out, ScheduleEntry(lines[1], lines[2])))

parse_tomorrow_text(text) == TomorrowLoop(TomorrowBlocks(text), <<>>)

\* ------------------------------------------------------------------------
\* SpecTomorrow: one call of parse_tomorrow_text on a text of at most
\* MaxTomorrowLines lines.
\* ------------------------------------------------------------------------
TomorrowLineKinds == {WBlank, WName("n1"), WName("n2"), WVs("o"), WOther}

TomorrowTexts == UNION {[1..n -> TomorrowLineKinds] : n \in 0..MaxTomorrowLines}

TomorrowCall ==
    /\ wpc = "call"
    /\ wout' = parse_tomorrow_text(win)
    /\ wpc' = "done"
    /\ UNCHANGED win
    /\ UNCHANGED <<mergeVars, teamVars, pubVars, normVars, scoreVars, dailyVars, loopVars>>

TomorrowNext == TomorrowCall

TomorrowInit ==
    /\ win \in TomorrowTexts
    /\ wout = <<>>
    /\ wpc = "call"
    /\ MergeIdle /\ TeamIdle /\ PubIdle
    /\ NormIdle /\ ScoreIdle /\ DailyIdle /\ LoopIdle

SpecTomorrow == TomorrowInit /\ [][TomorrowNext]_vars

\* ------------------------------------------------------------------------
\* Claims about parse_tomorrow_text, checked under SpecTomorrow
\* ------------------------------------------------------------------------
\* The lines at which a blank-line-delimited block starts.
BlockStarts ==
    {i \in 1..Len(win) : win[i].kind # "blank" /\ (i = 1 \/ win[i - 1].kind = "blank")}

\* The starts of the blocks that have two non-blank lines, the first
\* matching the name(event) pattern and the second the opponent pattern.
GoodStarts ==
    {i \in BlockStarts :
        /\ i + 1 <= Len(win)
        /\ win[i + 1].kind # "blank"
        /\ MatchesName(win[i])
        /\ MatchesVs(win[i + 1])}

\* The k-th element of a set of numbers, in increasing order.
NthOf(S, k) == CHOOSE i \in S : Cardinality({j \in S : j < i}) = k - 1

\* C16: parse_tomorrow_text returns exactly one Schedule Entry for each
\* blank-line-delimited block with at least two non-blank lines whose first
\* line matches the name(event) pattern and whose second line matches the
\* opponent(time, court) pattern, in input order; the other blocks are
\* dropped and leave the entries of the rest as they are.
C16_OneEntryPerGoodBlock ==
    wpc = "done" =>
        /\ Len(wout) = Cardinality(GoodStarts)
        /\ \A k \in 1..Len(wout) :
             LET i == NthOf(GoodStarts, k) IN
             wout[k] = [name |-> win[i].name, event |-> win[i].event,
                        opponent |-> win[i + 1].opp, time |-> win[i + 1].time,
                        court |-> win[i + 1].court]

\* Two entries were returned in input order and a block between them was
\* dropped.
C16_Witness ==
    /\ wpc = "done"
    /\ Len(wout) = 2
    /\ wout[1].name = "n1"
    /\ wout[2].name = "n2"
    /\ \E i \in BlockStarts \ GoodStarts :
         NthOf(GoodStarts, 1) < i /\ i < NthOf(GoodStarts, 2)

\* ------------------------------------------------------------------------
\* Further claims about parse_daily_results, checked under SpecDaily
\* ------------------------------------------------------------------------
PlayerNames(sec) == [k \in 1..Len(sec.players) |-> sec.players[k].name]

\* C17: in the batch parse_daily_results returns no Category entry holds two
\* Player entries with the same name.
C17_PlayersUniqueByName ==
    dpc = "done" => \A i \in 1..Len(dout) : NoDup(PlayerNames(dout[i]))

\* C18: a header with the category of the header before it continues that
\* Category record, so the batch returned never holds two adjacent Category
\* entries with the same category.
C18_NoAdjacentSameCategory ==
    dpc = "done" =>
        \A i \in 1..(Len(dout) - 1) : dout[i].category # dout[i + 1].category

\* C19: a header-like line whose category is not one of the four tags is
\* discarded wherever it stands: it opens no Category entry and is never
\* emitted as a player name.
C19_OtherCategoryHeaderDiscarded ==
    dpc = "done" =>
        \A i \in 1..Len(dout) :
            /\ dout[i].category \in {"MS", "MD", "WS", "WD"}
            /\ OtherCategoryHeader.text \notin Range(PlayerNames(dout[i]))

\* ------------------------------------------------------------------------
\* Further claims about merge_into_state, checked under SpecMerge
\* ------------------------------------------------------------------------
RECURSIVE Concat(_)
Concat(seqs) == IF seqs = <<>> THEN <<>> ELSE Head(seqs) \o Concat(Tail(seqs))

\* The lines of a batch in the order merge_into_state takes them, each as
\* <<category, player, stage, line>>.
FlatBlock(cat, name, blk) ==
    [k \in 1..Len(blk.lines) |-> <<cat, name, blk.stage, blk.lines[k]>>]

FlatPlayer(cat, pl) ==
    Concat([k \in 1..Len(pl.blocks) |-> FlatBlock(cat, pl.name, pl.blocks[k])])

FlatSection(sec) ==
    Concat([j \in 1..Len(sec.players) |-> FlatPlayer(sec.category, sec.players[j])])

FlatBatch(batch) == Concat([i \in 1..Len(batch) |-> FlatSection(batch[i])])

\* The lines a batch brings for one (category, player, stage), in order.
RECURSIVE Arrivals(_, _)
Arrivals(flat, key) ==
    IF flat = <<>> THEN <<>>
    ELSE IF <<Head(flat)[1], Head(flat)[2], Head(flat)[3]>> = key
         THEN <<Head(flat)[4]>> \o Arrivals(Tail(flat), key)
         ELSE Arrivals(Tail(flat), key)

\* The elements of seq that are not in seen, each at its first occurrence.
RECURSIVE FirstSeen(_, _)
FirstSeen(seq, seen) ==
    IF seq = <<>> THEN <<>>
    ELSE IF Head(seq) \in seen THEN FirstSeen(Tail(seq), seen)
    ELSE <<Head(seq)>> \o FirstSeen(Tail(seq), seen \cup {Head(seq)})

\* The line sequence the sections hold for a key, <<>> when there is no block.
LineSeqOf(sections, key) ==
    LET hits == {b \in AllBlocks(sections) : <<b.cat, b.name, b.stage>> = key}
    IN  IF hits = {} THEN <<>> ELSE (CHOOSE b \in hits : TRUE).lines

\* C21: merge_into_state only appends: the categories, the players of each
\* category, the blocks of each player and the lines of each block before
\* the merge are a prefix of those after it, and the lines a block gained
\* stand in the order in which the batch brought them.
C21_AppendOnlyFirstSeenOrder ==
    mcount > 0 =>
        /\ Len(mprev) <= Len(mstate)
        /\ \A i \in 1..Len(mprev) :
             /\ mstate[i].category = mprev[i].category
             /\ Len(mprev[i].players) <= Len(mstate[i].players)
             /\ \A j \in 1..Len(mprev[i].players) :
                  LET old == mprev[i].players[j]
                      new == mstate[i].players[j]
                  IN  /\ new.name = old.name
                      /\ Len(old.blocks) <= Len(new.blocks)
                      /\ \A k \in 1..Len(old.blocks) :
                           /\ new.blocks[k].stage = old.blocks[k].stage
                           /\ IsPrefix(old.blocks[k].lines, new.blocks[k].lines)
        /\ \A b \in AllBlocks(mstate) :
             LET key == <<b.cat, b.name, b.stage>>
                 old == LineSeqOf(mprev, key)
             IN  b.lines = old \o FirstSeen(Arrivals(FlatBatch(mbatch), key), Range(old))

\* A merge onto a non-empty state added a category and extended a block that
\* already held a line.
C21_Witness ==
    /\ mcount = 2
    /\ mprev # EmptySections
    /\ Len(mstate) > Len(mprev)
    /\ \E key \in BlockKeys(mprev) :
         /\ Len(LineSeqOf(mprev, key)) = 1
         /\ Len(LineSeqOf(mstate, key)) = 2

\* C22: after any sequence of merges from the empty state no two Category
\* entries have the same category name and no two Player entries of one
\* Category have the same name.
C22_CategoriesAndPlayersUnique ==
    /\ NoDup([i \in 1..Len(mstate) |-> mstate[i].category])
    /\ \A i \in 1..Len(mstate) :
         NoDup([j \in 1..Len(mstate[i].players) |-> mstate[i].players[j].name])

\* The last batch named one category twice and one player twice; the state
\* holds one entry of each.
C22_Witness ==
    /\ mcount >= 1
    /\ Len(mbatch) = 2
    /\ mbatch[1].category = mbatch[2].category
    /\ Len(mbatch[1].players) = 1
    /\ Len(mbatch[2].players) = 1
    /\ mbatch[1].players[1].name = mbatch[2].players[1].name
    /\ Len(mstate) = 1
    /\ Len(mstate[1].players) = 1

\* ------------------------------------------------------------------------
\* Claims about sequences of publishes, checked under SpecPublish
\* ------------------------------------------------------------------------
\* Request p has entered publish_final.
Started(p) == pc[p] \notin {"idle", "unauthorized", "rejected", "previewed"}

\* The publishes made so far are individual-mode, failure-free and do not
\* overlap: each one loaded the state after the others before it had returned.
SequentialIndividual ==
    /\ \A p \in Publishers :
         Started(p) => pc[p] = "done" /\ ctx[p].report_type = "individual"
    /\ \A p, q \in Publishers :
         (Started(p) /\ Started(q) /\ p # q) => (p \in seenDone[q] \/ q \in seenDone[p])

\* The request whose write made revision rev of the state file.
WriterOf(rev) == CHOOSE p \in Publishers : wroteRev[p] = rev

\* merge_into_state folded over the batches of revisions 1..rev.
RECURSIVE FoldedSections(_)
FoldedSections(rev) ==
    IF rev = 0 THEN EmptySections
    ELSE merge_into_state(FoldedSections(rev - 1), ctx[WriterOf(rev)].sections)

\* C23: after k non-overlapping, failure-free individual-mode publishes
\* against one tag that started with no document, the persisted sections are
\* merge_into_state folded over batches 1..k from the empty state: every
\* publish read the state the one before it wrote, and no line of an earlier
\* batch is lost.
C23_SequentialPublishesFold ==
    SequentialIndividual =>
        /\ store.state.rev = Cardinality({p \in Publishers : Started(p)})
        /\ \A p \in Publishers :
             Started(p) =>
                /\ wroteRev[p] \in 1..store.state.rev
                /\ readRev[p] = wroteRev[p] - 1
                /\ \A b \in AllBlocks(ctx[p].sections) :
                     Range(b.lines) \subseteq
                         LinesOf(store.state.content.sections, <<b.cat, b.name, b.stage>>)
        /\ store.state.content.sections = FoldedSections(store.state.rev)

\* Two publishes, one after the other, with different batches: the store
\* holds the lines of both.
C23_Witness ==
    /\ SequentialIndividual
    /\ store.state.rev = 2
    /\ ctx[WriterOf(1)].sections # ctx[WriterOf(2)].sections
    /\ \E key \in BlockKeys(store.state.content.sections) :
         Cardinality(LinesOf(store.state.content.sections, key)) = 2

\* C24: each successful team-mode publish appends exactly one entry to the
\* persisted team_days, so after n team-mode publishes against a tag that
\* started empty team_days has length n.
C24_OneTeamDayPerPublish ==
    /\ \A p \in Publishers :
         (pc[p] = "done" /\ ctx[p].report_type = "team") =>
             Len(mem[p].team_days) = Len(readDoc[p].team_days) + 1
    /\ (/\ \A p \in Publishers :
             Started(p) => pc[p] = "done" /\ ctx[p].report_type = "team"
        /\ \A p, q \in Publishers :
             (Started(p) /\ Started(q) /\ p # q) =>
                 (p \in seenDone[q] \/ q \in seenDone[p]))
       => Len(store.state.content.team_days) =
              Cardinality({p \in Publishers : Started(p)})

\* ------------------------------------------------------------------------
\* SpecDailyLoop: parse_daily_results step by step, one action per iteration
\* of its two while loops (src/app.py 311-356), on a text of at most
\* MaxLoopLines lines.
\* ------------------------------------------------------------------------
LoopTexts == UNION {[1..n -> DailyLineKinds] : n \in 0..MaxLoopLines}

\* How far the inner loop moves i (src/app.py 347, 351).
InnerAdvanceStuck(parsed) == IF parsed THEN 2 ELSE 0

InnerAdvance(parsed) == IF parsed THEN 2 ELSE 1

\* `while i + 1 < len(lines) and not HEADER_RE.match(lines[i])`
InnerCondition == pidx + 1 <= Len(plines) /\ ~IsHeader(plines[pidx])

\* One iteration of `while i < len(lines)` up to the inner loop: a line that
\* is no header is passed; a header opens a section.
LoopOuterStep ==
    /\ ppc = "outer"
    /\ pidx <= Len(plines)
    /\ IF ~IsHeader(plines[pidx])
       THEN /\ pidx' = pidx + 1
            /\ UNCHANGED <<psection, pstage, pround, ppc>>
       ELSE /\ psection' = [category |-> plines[pidx].category, players |-> <<>>]
            /\ pstage' = plines[pidx].stage
            /\ pround' = plines[pidx].round
            /\ pidx' = pidx + 1
            /\ ppc' = "inner"
    /\ UNCHANGED <<plines, psections>>
    /\ UNCHANGED <<mergeVars, teamVars, pubVars, normVars, scoreVars, dailyVars, tomorrowVars>>

\* One iteration of the inner loop.
LoopInnerStep ==
    /\ ppc = "inner"
    /\ InnerCondition
    /\ LET parsed == ParsesAsScore(plines[pidx + 1]) IN
       /\ psection' =
             IF parsed
             THEN [psection EXCEPT !.players =
                      Append(@, [name   |-> plines[pidx].text,
                                 blocks |-> << [stage |-> pstage,
                                                lines |-> << <<pround, plines[pidx + 1].score,
                                                               plines[pidx + 1].opp>> >>] >>])]
             ELSE psection
       /\ pidx' = pidx + InnerAdvance(parsed)
    /\ UNCHANGED <<plines, psections, pstage, pround, ppc>>
    /\ UNCHANGED <<mergeVars, teamVars, pubVars, normVars, scoreVars, dailyVars, tomorrowVars>>

\* The inner loop ends: `sections.append(section)`.
LoopInnerExit ==
    /\ ppc = "inner"
    /\ ~InnerCondition
    /\ psections' = Append(psections, psection)
    /\ ppc' = "outer"
    /\ UNCHANGED <<plines, pidx, psection, pstage, pround>>
    /\ UNCHANGED <<mergeVars, teamVars, pubVars, normVars, scoreVars, dailyVars, tomorrowVars>>

\* The outer loop ends: `return sections`.
LoopReturn ==
    /\ ppc = "outer"
    /\ pidx > Len(plines)
    /\ ppc' = "done"
    /\ UNCHANGED <<plines, pidx, psections, psection, pstage, pround>>
    /\ UNCHANGED <<mergeVars, teamVars, pubVars, normVars, scoreVars, dailyVars, tomorrowVars>>

LoopNext == LoopOuterStep \/ LoopInnerStep \/ LoopInnerExit \/ LoopReturn

LoopInit ==
    /\ plines \in {SelectSeq(t, LAMBDA ln : ln.kind # "blank") : t \in LoopTexts}
    /\ pidx = 1
    /\ psections = <<>>
    /\ psection = [category |-> "", players |-> <<>>]
    /\ pstage = ""
    /\ pround = ""
    /\ ppc = "outer"
    /\ MergeIdle /\ TeamIdle /\ PubIdle
    /\ NormIdle /\ ScoreIdle /\ DailyIdle /\ TomorrowIdle

SpecDailyLoop == LoopInit /\ [][LoopNext]_vars

\* The interpreter runs the next step of the function whenever there is one.
SpecDailyLoopFair == SpecDailyLoop /\ WF_vars(LoopNext)

\* The loops give what parse_daily_results gives.
LoopAgreesWithParse == ppc = "done" => psections = DailySections(plines, 1, <<>>)

\* ------------------------------------------------------------------------
\* Claims about the loops of parse_daily_results, checked under
\* SpecDailyLoopFair
\* ------------------------------------------------------------------------

\* C25: parse_daily_results terminates on every finite line sequence: the
\* line index strictly increases in every iteration of the outer loop and of
\* the inner loop, it never passes the end of the input, and the function
\* returns.
C25_ParserTerminates ==
    /\ [][((ppc = "outer" /\ ppc' # "done") \/ (ppc = "inner" /\ ppc' = "inner"))
             => pidx' > pidx]_vars
    /\ [](pidx <= Len(plines) + 1)
    /\ <>(ppc = "done")

\* The parse of header, name, unparsable line, score line has returned: the
\* inner loop passed a line by one step and a pair by two.
C25_Witness ==
    /\ ppc = "done"
    /\ plines = << DHeader("MS", "main", "1R"), DText("A"), DText("B"),
                   DScore("6-3/6-2", "x") >>
    /\ pidx = Len(plines) + 1
    /\ Len(psections) = 1
    /\ Len(psections[1].players) = 1

====
